---- MODULE Spec2Model ----
(***************************************************************************)
(* Model of the Stack datatype of stack.py.                                *)
(*                                                                         *)
(* A Stack object has two fields: elts, a Python list whose last element   *)
(* is the top of the stack, and index, the iteration cursor that __iter__  *)
(* and __next__ keep on the instance itself.  The model holds two Stack    *)
(* objects, bound to the caller's variables s1 and s2 as in Stack.test().  *)
(* Python lists are 0-based and TLA+ sequences 1-based: the Python         *)
(* expression elts[i] is elts[i + 1] here.                                 *)
(***************************************************************************)
EXTENDS Integers, Sequences, FiniteSets, TLC

\* ------------------------------------------------------------------ bounds
\* Largest number of elements the two stacks hold together.
MaxLen == 4
\* Largest number of items passed to one extend() call.
MaxItems == 2
\* Largest multiplier passed to the * operator.
MaxNum == 3

\* ------------------------------------------------------------- value sets
\* The caller's variables s1 and s2, each bound to its own Stack object.
StackId == {1, 2}
\* The values pushed on the stacks.
Val == {0, 1}

SeqsUpTo(n) == UNION {[1..k -> Val] : k \in 0..n}

\* The multipliers tried with *: integers (Integral) and floats, which are
\* numbers but not Integral; val is the numeric value.
Nums == {[integral |-> TRUE, val |-> n] : n \in -1..MaxNum}
          \cup {[integral |-> FALSE, val |-> n] : n \in {-1, 2}}

NoNum == [integral |-> TRUE, val |-> 0]

\* ------------------------------------------------------------------ state
VARIABLES
  elts,    \* elts[s]: the list self.elts of stack s, bottom first
  index,   \* index[s]: the cursor self.index of stack s
  last,    \* the latest call: operation, arguments, result, error, and the
           \* lists of both stacks as they were before the call
  run,     \* the current streak of pushes followed by pops on one stack
  trav,    \* trav[s]: the traversal of stack s since the latest iteration
           \* request on it, while s has not been mutated
  cur,     \* cur[h]: the traversal of the caller that holds iterator h
  walk,    \* walk[s]: the steps of stack s's cursor since the latest
           \* iteration request, while only pushes have come between them
  view     \* the list items() returned, as kept by the caller

vars == <<elts, index, last, run, trav, cur, walk, view>>

\* ---------------------------------------------------------------- helpers
Reverse(q) == [i \in 1..Len(q) |-> q[Len(q) + 1 - i]]

Size(f) == Len(f[1]) + Len(f[2])

Other(s) == IF s = 1 THEN 2 ELSE 1

\* del self.elts[-1]
DelLast(q) == SubSeq(q, 1, Len(q) - 1)

\* results of a call
NoRet == [kind |-> "none", val |-> 0]
RetStack(s) == [kind |-> "stack", val |-> s]
RetItem(x) == [kind |-> "item", val |-> x]
RetList(q) == [kind |-> "list", val |-> q]
RetBool(b) == [kind |-> "bool", val |-> b]
RetInt(n) == [kind |-> "int", val |-> n]
\* None, as top() returns it
RetAbsent == [kind |-> "absent", val |-> 0]

Call(op, s, o, items, num, ret, err) ==
  [op |-> op, self |-> s, other |-> o, items |-> items, num |-> num,
   ret |-> ret, err |-> err, pre |-> elts]

NoRun == [stk |-> 0, base |-> <<>>, pending |-> <<>>, popping |-> FALSE,
          expect |-> 0, pushes |-> 0]

\* The iterators the callers hold; iter(s) returns s itself to each of them.
Handle == {"t1", "t2"}

NoTrav == [state |-> "none", out |-> <<>>, start |-> 0]
NoCur == [stk |-> 0, state |-> "none", pos |-> 0]

\* A call that mutates stack s, or takes over its cursor, ends the
\* unmutated traversals of s; the callers keep their iterators.
EndTrav(s) == [trav EXCEPT ![s] = NoTrav]
EndCur(s) ==
  [h \in Handle |-> IF cur[h].stk = s THEN [NoCur EXCEPT !.stk = s]
                                      ELSE cur[h]]
\* The variable s is bound to a new Stack: the iterators of the old one go.
DropCur(s) == [h \in Handle |-> IF cur[h].stk = s THEN NoCur ELSE cur[h]]

NoWalk == [state |-> "none", limit |-> 0, yields |-> 0]

\* A call that removes items of stack s, takes over its cursor or rebinds
\* the variable ends the walk of s.
EndWalk(s) == [walk EXCEPT ![s] = NoWalk]

\* The list the caller got from items(): of which stack, whether it still is
\* the list self.elts of that stack (live) and, once it is no longer
\* self.elts, its contents (data).
NoView == [stk |-> 0, live |-> FALSE, data |-> <<>>]

\* The contents of the caller's list now.
ViewNow == IF view.live THEN elts[view.stk] ELSE view.data

\* Stack s gets another list object as self.elts (or the variable another
\* Stack): the caller's list keeps its contents and is self.elts no more.
ViewDetach(s) ==
  IF view.live /\ view.stk = s
  THEN [view EXCEPT !.live = FALSE, !.data = elts[s]]
  ELSE view

\* ------------------------------------------------------------------- Init
\* Both stacks as __init__ leaves them: index = 0, elts = list(items).
Init ==
  /\ elts \in {f \in [StackId -> SeqsUpTo(MaxLen)] : Size(f) <= MaxLen}
  /\ index = [s \in StackId |-> 0]
  /\ last = [op |-> "init", self |-> 0, other |-> 0, items |-> <<>>,
             num |-> NoNum, ret |-> NoRet, err |-> "none", pre |-> elts]
  /\ run = NoRun
  /\ trav = [s \in StackId |-> NoTrav]
  /\ cur = [h \in Handle |-> NoCur]
  /\ walk = [s \in StackId |-> NoWalk]
  /\ view = NoView

\* ------------------------------------------------------------- operations
\* s = Stack(*items): the variable s is bound to a new Stack.
Construct(s, items) ==
  /\ Len(items) + Len(elts[Other(s)]) <= MaxLen
  /\ elts' = [elts EXCEPT ![s] = items]
  /\ index' = [index EXCEPT ![s] = 0]
  /\ last' = Call("construct", s, 0, items, NoNum, RetStack(s), "none")
  /\ run' = NoRun
  /\ trav' = EndTrav(s)
  /\ cur' = DropCur(s)
  /\ walk' = EndWalk(s)
  /\ view' = ViewDetach(s)

\* self.elts after push(item): append to a non-empty list, else a new list.
PushElts(q, item) == IF Len(q) > 0 THEN Append(q, item) ELSE <<item>>

Push(s, item) ==
  /\ Size(elts) < MaxLen
  /\ elts' = [elts EXCEPT ![s] = PushElts(elts[s], item)]
  /\ index' = index
  /\ last' = Call("push", s, 0, <<item>>, NoNum, RetStack(s), "none")
  /\ run' = IF run.stk = s /\ ~run.popping
            THEN [run EXCEPT !.pending = Append(@, item), !.pushes = @ + 1]
            ELSE [stk |-> s, base |-> elts[s], pending |-> <<item>>,
                  popping |-> FALSE, expect |-> 0, pushes |-> 1]
  /\ trav' = EndTrav(s)
  /\ cur' = EndCur(s)
  /\ walk' = walk
  /\ view' = IF Len(elts[s]) > 0 THEN view ELSE ViewDetach(s)

\* pop() that removes and returns the bottom item instead of the top.
PopResultBottom(q) ==
  IF Len(q) > 0
  THEN [elts |-> SubSeq(q, 2, Len(q)), ret |-> RetItem(q[1]), err |-> "none"]
  ELSE [elts |-> q, ret |-> NoRet, err |-> "IndexError"]

\* pop() that returns nothing on an empty stack instead of raising.
PopResultSilent(q) ==
  IF Len(q) > 0
  THEN [elts |-> DelLast(q), ret |-> RetItem(q[Len(q)]), err |-> "none"]
  ELSE [elts |-> q, ret |-> NoRet, err |-> "none"]

\* pop(): the list after the call, the result and the error.
PopResult(q) ==
  IF Len(q) > 0
  THEN [elts |-> DelLast(q), ret |-> RetItem(q[Len(q)]), err |-> "none"]
  ELSE [elts |-> q, ret |-> NoRet, err |-> "IndexError"]

Pop(s) ==
  LET r == PopResult(elts[s]) IN
  /\ elts' = [elts EXCEPT ![s] = r.elts]
  /\ index' = index
  /\ last' = Call("pop", s, 0, <<>>, NoNum, r.ret, r.err)
  /\ run' = IF run.stk = s /\ Len(run.pending) > 0
            THEN [run EXCEPT !.pending = DelLast(@), !.popping = TRUE,
                             !.expect = run.pending[Len(run.pending)]]
            ELSE NoRun
  /\ trav' = IF r.err = "none" THEN EndTrav(s) ELSE trav
  /\ cur' = IF r.err = "none" THEN EndCur(s) ELSE cur
  /\ walk' = IF r.err = "none" THEN EndWalk(s) ELSE walk
  /\ view' = view

\* extend() that pushes the last item first.
ExtendEltsReversed(q, items) == q \o Reverse(items)

\* self.elts.extend(items)
ExtendElts(q, items) == q \o items

Extend(s, items) ==
  /\ Size(elts) + Len(items) <= MaxLen
  /\ elts' = [elts EXCEPT ![s] = ExtendElts(elts[s], items)]
  /\ index' = index
  /\ last' = Call("extend", s, 0, items, NoNum, RetStack(s), "none")
  /\ run' = NoRun
  /\ trav' = IF Len(items) > 0 THEN EndTrav(s) ELSE trav
  /\ cur' = IF Len(items) > 0 THEN EndCur(s) ELSE cur
  /\ walk' = walk
  /\ view' = view

\* __next__ on a stack with list q and cursor i: the result, the error and
\* the cursor after the call.  The cursor is decremented before the list is
\* subscripted, so an IndexError leaves it decremented.
NextResult(q, i) ==
  IF i <= 0 \/ Len(q) = 0
  THEN [ret |-> NoRet, err |-> "StopIteration", index |-> Len(q)]
  ELSE IF i - 1 < Len(q)
       THEN [ret |-> RetItem(q[i]), err |-> "none", index |-> i - 1]
       ELSE [ret |-> NoRet, err |-> "IndexError", index |-> i - 1]

\* __iter__ that starts one above the top.
IterIndexAboveTop(q) == Len(q) + 1

\* __iter__ that starts one below the top.
IterIndexBelowTop(q) == Len(q) - 1

\* __iter__: the cursor after the call.
IterIndex(q) == Len(q)

\* The loop of list.extend(stack) inside __add__: each item __next__ yields
\* from stack b is appended to the list of a at once, until __next__ raises.
\* m holds the lists and cursors of both stacks.
RECURSIVE AddLoop(_, _, _)
AddLoop(m, a, b) ==
  LET r == NextResult(m.elts[b], m.index[b])
      m1 == [m EXCEPT !.index[b] = r.index]
  IN IF r.err = "StopIteration" THEN [m1 EXCEPT !.err = "none"]
     ELSE IF r.err # "none" THEN [m1 EXCEPT !.err = r.err]
     ELSE AddLoop([m1 EXCEPT !.elts[a] = Append(@, r.ret.val)], a, b)

\* a + b that moves the items of b to a instead of copying them.
AddResultMoving(a, b) ==
  [AddLoop([elts |-> elts,
            index |-> [index EXCEPT ![b] = IterIndex(elts[b])],
            err |-> "none"], a, b) EXCEPT !.elts[b] = <<>>]

\* a + b: the lists and cursors after the call.
AddResult(a, b) ==
  AddLoop([elts |-> elts,
           index |-> [index EXCEPT ![b] = IterIndex(elts[b])],
           err |-> "none"], a, b)

Add(a, b) ==
  LET m == AddResult(a, b) IN
  /\ Size(elts) + Len(elts[b]) <= MaxLen
  /\ elts' = m.elts
  /\ index' = m.index
  /\ last' = Call("add", a, b, <<>>, NoNum,
                  IF m.err = "none" THEN RetStack(a) ELSE NoRet, m.err)
  /\ run' = NoRun
  /\ trav' = [s \in StackId |->
                IF s = b \/ (s = a /\ m.elts[a] # elts[a])
                THEN NoTrav ELSE trav[s]]
  /\ cur' = [h \in Handle |->
               IF cur[h].stk = b \/ (cur[h].stk = a /\ m.elts[a] # elts[a])
               THEN [NoCur EXCEPT !.stk = cur[h].stk] ELSE cur[h]]
  /\ walk' = EndWalk(b)
  /\ view' = view

\* The loop of __mul__ run num times instead of num - 1 times.
RECURSIVE MulLoopFromZero(_, _)
MulLoopFromZero(q, k) ==
  IF k < 0 THEN q ELSE MulLoopFromZero(q \o q, k - 1)

\* The loop of __mul__: items is the list self.elts itself, not a copy, so
\* every self.extend(*items) unpacks the list as it is at that moment.
RECURSIVE MulLoop(_, _)
MulLoop(q, k) ==
  IF k <= 0 THEN q ELSE MulLoop(ExtendElts(q, q), k - 1)

\* The test of __mul__ without the Integral check.
ValidMultiplierAnyNumber(num) == num.val >= 0

\* isinstance(num, Integral) and num >= 0
ValidMultiplier(num) == num.integral /\ num.val >= 0

\* s * 0 that empties and returns s itself.
ZeroStackSelf(s) == s

\* The stack s * 0 returns: a new Stack(), which the caller binds to the
\* other variable.
ZeroStack(s) == Other(s)

\* s * num
Mul(s, num) ==
  LET r == ZeroStack(s) IN
  IF ValidMultiplier(num)
  THEN IF num.val = 0
       THEN /\ elts' = [elts EXCEPT ![r] = <<>>]
            /\ index' = [index EXCEPT ![r] = 0]
            /\ last' = Call("mul", s, 0, <<>>, num, RetStack(r), "none")
            /\ run' = NoRun
            /\ trav' = EndTrav(r)
            /\ cur' = DropCur(r)
            /\ walk' = EndWalk(r)
            /\ view' = ViewDetach(r)
       ELSE LET q == MulLoop(elts[s], num.val - 1) IN
            /\ Len(q) + Len(elts[Other(s)]) <= MaxLen
            /\ elts' = [elts EXCEPT ![s] = q]
            /\ index' = index
            /\ last' = Call("mul", s, 0, <<>>, num, RetStack(s), "none")
            /\ run' = NoRun
            /\ trav' = IF q # elts[s] THEN EndTrav(s) ELSE trav
            /\ cur' = IF q # elts[s] THEN EndCur(s) ELSE cur
            /\ walk' = walk
            /\ view' = view
  ELSE /\ last' = Call("mul", s, 0, <<>>, num, NoRet, "TypeError")
       /\ run' = NoRun
       /\ UNCHANGED <<elts, index, trav, cur, walk, view>>

\* iter(s), the result kept by the caller as iterator h.
Iter(s, h) ==
  /\ elts' = elts
  /\ index' = [index EXCEPT ![s] = IterIndex(elts[s])]
  /\ last' = Call("iter", s, 0, <<>>, NoNum, RetStack(s), "none")
  /\ run' = NoRun
  /\ trav' = [trav EXCEPT ![s] = [state |-> "active", out |-> <<>>,
                                  start |-> index[s]]]
  /\ cur' = [cur EXCEPT ![h] = [stk |-> s, state |-> "active",
                                pos |-> Len(elts[s])]]
  /\ walk' = [walk EXCEPT ![s] = [state |-> "active",
                                  limit |-> Len(elts[s]), yields |-> 0]]
  /\ view' = view

\* next(h) by the caller whose iterator h is stack s.  cur[h].pos is where a
\* cursor of h's own would stand; the traversal of h is "broken" once a step
\* gives h something else than that cursor would.
NextStep(s, h) ==
  LET r == NextResult(elts[s], index[s])
      own == NextResult(elts[s], cur[h].pos)
  IN
  /\ cur[h].stk = s
  /\ elts' = elts
  /\ index' = [index EXCEPT ![s] = r.index]
  /\ last' = Call("next", s, 0, <<>>, NoNum, r.ret, r.err)
  /\ run' = NoRun
  /\ trav' = [trav EXCEPT ![s] =
                IF trav[s].state = "active" /\ r.err = "none"
                THEN [@ EXCEPT !.out = Append(@, r.ret.val)]
                ELSE IF trav[s].state = "active" /\ r.err = "StopIteration"
                THEN [@ EXCEPT !.state = "stopped"]
                ELSE NoTrav]
  /\ cur' = [cur EXCEPT ![h] =
               IF cur[h].state # "active" THEN [@ EXCEPT !.pos = 0]
               ELSE IF r.ret # own.ret \/ r.err # own.err
               THEN [@ EXCEPT !.state = "broken", !.pos = 0]
               ELSE IF r.err = "StopIteration"
               THEN [@ EXCEPT !.state = "done", !.pos = 0]
               ELSE [@ EXCEPT !.pos = own.index]]
  /\ walk' = [walk EXCEPT ![s] =
                IF walk[s].state = "active" /\ r.err = "none"
                THEN [@ EXCEPT !.yields = @ + 1]
                ELSE IF walk[s].state = "active" /\ r.err = "StopIteration"
                THEN [@ EXCEPT !.state = "stopped"]
                ELSE NoWalk]
  /\ view' = view

\* A call that only returns a value.
Query(op, s, o, items, ret, err) ==
  /\ last' = Call(op, s, o, items, NoNum, ret, err)
  /\ run' = NoRun
  /\ UNCHANGED <<elts, index, trav, cur, walk>>

\* items(): return self.elts, the list itself.
ItemsResult(q) == q

\* items(); keep tells whether the caller keeps the list it gets.
ItemsCall(s, keep) ==
  /\ Query("items", s, 0, <<>>, RetList(ItemsResult(elts[s])), "none")
  /\ view' = IF keep
             THEN [stk |-> s, live |-> TRUE, data |-> <<>>]
             ELSE view

\* list() that forgets to reverse.
ListResultUnreversed(q) == q

\* list(): list(reversed(self.elts))
ListResult(q) == Reverse(q)

ListCall(s) ==
  /\ Query("list", s, 0, <<>>, RetList(ListResult(elts[s])), "none")
  /\ view' = view

\* __len__
LenResult(q) == Len(q)

\* top() that raises on an empty stack, as pop() does.
TopResultRaises(q) ==
  IF Len(q) > 0 THEN [ret |-> RetItem(q[Len(q)]), err |-> "none"]
                ELSE [ret |-> NoRet, err |-> "IndexError"]

\* top(): self.elts[-1] if len(self.elts) > 0 else None
TopResult(q) ==
  IF Len(q) > 0 THEN [ret |-> RetItem(q[Len(q)]), err |-> "none"]
                ELSE [ret |-> RetAbsent, err |-> "none"]

Top(s) ==
  LET r == TopResult(elts[s]) IN
  /\ Query("top", s, 0, <<>>, r.ret, r.err)
  /\ view' = view

\* count() that stops at the first occurrence.
CountResultFirst(q, item) == IF \E i \in 1..Len(q) : q[i] = item THEN 1 ELSE 0

\* count(item): self.elts.count(item), a scan of the list from its start.
RECURSIVE CountResult(_, _)
CountResult(q, item) ==
  IF q = <<>> THEN 0
  ELSE (IF Head(q) = item THEN 1 ELSE 0) + CountResult(Tail(q), item)

Count(s, item) ==
  /\ Query("count", s, 0, <<item>>, RetInt(CountResult(elts[s], item)), "none")
  /\ view' = view

\* __contains__: item in self.elts
ContainsResult(q, item) == \E i \in 1..Len(q) : q[i] = item

Contains(s, item) ==
  /\ Query("contains", s, 0, <<item>>,
           RetBool(ContainsResult(elts[s], item)), "none")
  /\ view' = view

\* The right operands tried with ==: the two stacks, and 0 for a value that
\* is not a Stack (a list) holding the elements of the left operand.
EqOperand == StackId \cup {0}
TypeOf(o) == IF o \in StackId THEN "Stack" ELSE "list"
EltsOf(a, o) == IF o \in StackId THEN elts[o] ELSE elts[a]

\* __eq__ without the type test.
EqResultAnyType(ta, qa, tb, qb) == qa = qb

\* __eq__: type(self) is type(stack) and self.elts == stack.elts
EqResult(ta, qa, tb, qb) == ta = tb /\ qa = qb

Eq(a, o) ==
  /\ Query("eq", a, o, EltsOf(a, o),
           RetBool(EqResult("Stack", elts[a], TypeOf(o), EltsOf(a, o))),
           "none")
  /\ view' = view

\* The caller appends item to the list items() gave it.
ViewAppend(item) ==
  LET s == view.stk IN
  /\ s \in StackId
  /\ Size(elts) + (IF view.live THEN 0 ELSE Len(view.data)) < MaxLen
  /\ elts' = IF view.live THEN [elts EXCEPT ![s] = Append(@, item)] ELSE elts
  /\ view' = IF view.live THEN view ELSE [view EXCEPT !.data = Append(@, item)]
  /\ index' = index
  /\ last' = Call("append", s, 0, <<item>>, NoNum, NoRet, "none")
  /\ run' = NoRun
  /\ trav' = IF view.live THEN EndTrav(s) ELSE trav
  /\ cur' = IF view.live THEN EndCur(s) ELSE cur
  /\ walk' = walk

\* ---------------------------------------------------------- specifications
\* The container operations on the two stacks.
Next ==
  \/ \E s \in StackId, items \in SeqsUpTo(MaxItems) : Construct(s, items)
  \/ \E s \in StackId, x \in Val : Push(s, x)
  \/ \E s \in StackId : Pop(s)
  \/ \E s \in StackId, items \in SeqsUpTo(MaxItems) : Extend(s, items)
  \/ \E a \in StackId, b \in StackId : Add(a, b)
  \/ \E s \in StackId, num \in Nums : Mul(s, num)
  \/ \E s \in StackId : ItemsCall(s, FALSE)
  \/ \E s \in StackId : ListCall(s)

Spec == Init /\ [][Next]_vars

\* The calls that only return a value, between pushes and pops on the two
\* stacks.
NextQuery ==
  \/ \E s \in StackId, x \in Val : Push(s, x)
  \/ \E s \in StackId : Pop(s)
  \/ \E s \in StackId : ItemsCall(s, FALSE)
  \/ \E s \in StackId : ListCall(s)
  \/ \E s \in StackId : Top(s)
  \/ \E s \in StackId, x \in Val : Count(s, x)
  \/ \E s \in StackId, x \in Val : Contains(s, x)
  \/ \E a \in StackId, o \in EqOperand : Eq(a, o)

SpecQuery == Init /\ [][NextQuery]_vars

\* One stack, traversed by one caller and mutated between the steps.
InitIter == Init /\ elts[2] = <<>>

NextIter ==
  \/ \E x \in Val : Push(1, x)
  \/ Pop(1)
  \/ \E items \in SeqsUpTo(MaxItems) : Extend(1, items)
  \/ Add(1, 1)
  \/ Iter(1, "t1")
  \/ NextStep(1, "t1")

SpecIter == InitIter /\ [][NextIter]_vars

\* One stack, traversed by two callers at once.
NextNested ==
  \/ \E x \in Val : Push(1, x)
  \/ Pop(1)
  \/ \E h \in Handle : Iter(1, h)
  \/ \E h \in Handle : NextStep(1, h)

SpecNested == InitIter /\ [][NextNested]_vars

\* Two stacks, each traversed by its own caller, and compared.
NextEq ==
  \/ Iter(1, "t1")
  \/ Iter(2, "t2")
  \/ NextStep(1, "t1")
  \/ NextStep(2, "t2")
  \/ \E a \in StackId, o \in EqOperand : Eq(a, o)

SpecEq == Init /\ [][NextEq]_vars

\* One stack whose caller keeps the list items() returned.
NextView ==
  \/ ItemsCall(1, TRUE)
  \/ \E x \in Val : Push(1, x)
  \/ Pop(1)
  \/ \E items \in SeqsUpTo(MaxItems) : Extend(1, items)
  \/ Add(1, 1)
  \/ \E num \in Nums : num.val # 0 /\ Mul(1, num)
  \/ \E x \in Val : ViewAppend(x)

SpecView == InitIter /\ [][NextView]_vars

\* ------------------------------------------------------------------ claims
IsPrefix(p, q) == Len(p) <= Len(q) /\ p = SubSeq(q, 1, Len(p))

RECURSIVE Repeat(_, _)
Repeat(q, n) == IF n <= 0 THEN <<>> ELSE q \o Repeat(q, n - 1)

MulBy(n) == last.op = "mul" /\ last.num.integral /\ last.num.val = n

\* C1: after s * n with n >= 2, s holds its original sequence repeated n
\* times in order, and s itself is returned.
C1_MulRepeats ==
  (last.op = "mul" /\ last.num.integral /\ last.num.val >= 2)
    => /\ last.err = "none"
       /\ last.ret = RetStack(last.self)
       /\ elts[last.self] = Repeat(last.pre[last.self], last.num.val)

\* C2: after a + b with a and b distinct, a holds its original sequence
\* followed by the bottom-to-top sequence of b, and a itself is returned.
C2_AddBottomToTop ==
  (last.op = "add" /\ last.self # last.other)
    => /\ last.err = "none"
       /\ last.ret = RetStack(last.self)
       /\ elts[last.self] = last.pre[last.self] \o last.pre[last.other]

\* C3: in a streak of k pushes followed by pops on one stack, every pop
\* returns the latest pushed item not yet popped, and after the k-th pop the
\* stack holds the sequence it held before the first push.
C3_Lifo ==
  run.popping
    => /\ last.op = "pop" /\ last.self = run.stk
       /\ last.err = "none"
       /\ last.ret = RetItem(run.expect)
       /\ run.pending = <<>> => elts[run.stk] = run.base

C3_Witness ==
  /\ run.popping /\ run.pending = <<>> /\ run.pushes >= 2
  /\ run.base # <<>>
  /\ last.ret.val # run.base[Len(run.base)]

\* C4: pop() on an empty stack raises IndexError and leaves the stack empty;
\* pop() on a non-empty stack raises nothing, returns the last element and
\* removes that element only.
C4_Pop ==
  last.op = "pop"
    => IF last.pre[last.self] = <<>>
       THEN last.err = "IndexError" /\ elts = last.pre
       ELSE /\ last.err = "none"
            /\ last.ret.kind = "item"
            /\ last.pre[last.self] = Append(elts[last.self], last.ret.val)
            /\ elts[Other(last.self)] = last.pre[Other(last.self)]

C4_Witness ==
  /\ last.op = "pop" /\ last.err = "IndexError"
  /\ last.pre[last.self] = <<>> /\ elts[last.self] = <<>>

\* C5: s * n with n negative or not integral raises TypeError and leaves the
\* elements of s as they were.
C5_MulInvalid ==
  (last.op = "mul" /\ (~last.num.integral \/ last.num.val < 0))
    => last.err = "TypeError" /\ elts = last.pre

C5_Witness ==
  /\ last.op = "mul" /\ ~last.num.integral /\ last.num.val = 2
  /\ last.err = "TypeError" /\ Len(elts[last.self]) >= 2

\* C6: after s + s, s holds its original sequence followed by its original
\* sequence again.
C6_SelfAdd ==
  (last.op = "add" /\ last.self = last.other)
    => /\ last.err = "none"
       /\ elts[last.self] = last.pre[last.self] \o last.pre[last.self]

\* C7: the steps that follow an iteration request on an unmutated stack yield
\* the elements from the top down, each once, and then signal the end,
\* wherever the cursor stood before the request.
C7_FreshTraversal ==
  \A s \in StackId :
    /\ trav[s].state = "active" => IsPrefix(trav[s].out, Reverse(elts[s]))
    /\ trav[s].state = "stopped" => trav[s].out = Reverse(elts[s])
    /\ (last.op = "next" /\ last.self = s /\ trav[s].state = "active")
         => last.ret = RetItem(trav[s].out[Len(trav[s].out)])

C7_Witness ==
  /\ trav[1].state = "stopped" /\ last.op = "next"
  /\ Len(trav[1].out) >= 3
  /\ trav[1].start \notin {0, Len(elts[1])}

\* C8: of two traversals of one unmutated stack in progress at once, each
\* gets at every step what a cursor of its own would give it.
C8_IndependentCursors == \A h \in Handle : cur[h].state # "broken"

\* C9: s * 0 returns an empty stack that is not s and leaves the elements of
\* s as they were; a push, pop or extend on one of the two right after it
\* leaves the elements of the other as they were.
C9_State ==
  MulBy(0) => /\ last.err = "none"
              /\ last.ret.kind = "stack" /\ last.ret.val # last.self
              /\ elts[last.ret.val] = <<>>
              /\ elts[last.self] = last.pre[last.self]

C9_Frame ==
  (MulBy(0) /\ last'.op \in {"push", "pop", "extend"})
    => elts'[Other(last'.self)] = elts[Other(last'.self)]

C9_MulZero == []C9_State /\ [][C9_Frame]_vars

C9_Witness ==
  /\ MulBy(0) /\ last.ret.kind = "stack"
  /\ Len(elts[last.self]) >= 2 /\ elts[last.ret.val] = <<>>
  /\ last.pre[last.ret.val] # <<>>

\* C10: a + b with a and b distinct leaves the elements of b, and so its
\* length, as they were.
C10_AddRightUnchanged ==
  (last.op = "add" /\ last.self # last.other)
    => elts[last.other] = last.pre[last.other]

C10_Witness ==
  /\ last.op = "add" /\ last.self # last.other
  /\ Len(elts[last.other]) >= 2
  /\ elts[last.self] # last.pre[last.self]

\* C11: for every stack, items() is the reverse of list(), position by
\* position, and both are as long as len() says.
C11_ItemsReverseOfList ==
  /\ \A s \in StackId :
       LET it == ItemsResult(elts[s])
           li == ListResult(elts[s])
           n == LenResult(elts[s])
       IN /\ Len(it) = n /\ Len(li) = n
          /\ \A i \in 1..n : it[i] = li[n + 1 - i]
  /\ last.op = "list"
       => \A i \in 1..Len(elts[last.self]) :
            last.ret.val[i] = elts[last.self][Len(elts[last.self]) + 1 - i]
  /\ last.op = "items" => last.ret.val = elts[last.self]

C11_Witness ==
  /\ last.op = "list" /\ Len(last.ret.val) >= 3
  /\ last.ret.val[1] # last.ret.val[3]

RECURSIVE PushAll(_, _)
PushAll(q, items) ==
  IF items = <<>> THEN q
  ELSE PushAll(PushElts(q, Head(items)), Tail(items))

\* C12: extend(x1, ..., xk) leaves the list that push(x1), ..., push(xk)
\* would leave, for k = 0 and on an empty stack too, raises nothing and
\* returns the stack itself.
C12_ExtendAsPushes ==
  last.op = "extend"
    => /\ last.err = "none"
       /\ last.ret = RetStack(last.self)
       /\ elts[last.self] = PushAll(last.pre[last.self], last.items)
       /\ elts[Other(last.self)] = last.pre[Other(last.self)]

C12_Witness ==
  /\ last.op = "extend" /\ Len(last.items) = 2
  /\ last.items[1] # last.items[2]
  /\ last.pre[last.self] = <<>>
  /\ elts[last.self][Len(elts[last.self])] = last.items[2]

\* C13: top() raises nothing and changes nothing; it returns the last
\* element, the one pop() would return, or None on an empty stack.
C13_Top ==
  last.op = "top"
    => /\ last.err = "none"
       /\ elts = last.pre
       /\ IF elts[last.self] = <<>>
          THEN last.ret.kind = "absent"
          ELSE /\ last.ret = RetItem(elts[last.self][Len(elts[last.self])])
               /\ last.ret = PopResult(elts[last.self]).ret

C13_Witness ==
  last.op = "top" /\ last.ret.kind = "absent" /\ elts[last.self] = <<>>

\* C14: count(item) is the number of positions that hold item, the
\* containment test is true exactly when that number is positive, and
\* neither changes the stack.
C14_CountContains ==
  /\ last.op = "count"
       => /\ last.ret.val =
               Cardinality({i \in 1..Len(elts[last.self]) :
                              elts[last.self][i] = last.items[1]})
          /\ elts = last.pre
  /\ last.op = "contains"
       => /\ last.ret.val = (CountResult(elts[last.self], last.items[1]) > 0)
          /\ elts = last.pre

C14_Witness ==
  /\ last.op = "count" /\ last.ret.val = 2
  /\ Len(elts[last.self]) = 3

\* C15: a == b is true exactly when b is a Stack and the two lists are
\* equal position by position, wherever the cursors of the two stand.
C15_Eq ==
  last.op = "eq"
    => /\ last.ret.val =
            IF last.other \in StackId
            THEN /\ Len(elts[last.self]) = Len(elts[last.other])
                 /\ \A i \in 1..Len(elts[last.self]) :
                      elts[last.self][i] = elts[last.other][i]
            ELSE FALSE
       /\ elts = last.pre

C15_Witness ==
  /\ last.op = "eq" /\ last.other \in StackId /\ last.other # last.self
  /\ last.ret.val = TRUE
  /\ Len(elts[last.self]) >= 2
  /\ index[last.self] # index[last.other]
  /\ walk[last.self].state = "active" /\ walk[last.self].yields = 1
  /\ walk[last.other].state = "stopped"

\* C16: s * 1 returns s itself and leaves its elements as they were.
C16_MulOne ==
  MulBy(1) => /\ last.err = "none"
              /\ last.ret = RetStack(last.self)
              /\ elts = last.pre

C16_Witness ==
  MulBy(1) /\ last.err = "none" /\ Len(elts[last.self]) >= 2

\* C17: a step of a traversal of a stack that pushes and pops have changed
\* yields an element the stack holds at that moment or signals the end; it
\* raises nothing else.
C17_NextAfterMutation ==
  last.op = "next"
    => /\ last.err \in {"none", "StopIteration"}
       /\ last.err = "none"
            => \E i \in 1..Len(elts[last.self]) :
                 elts[last.self][i] = last.ret.val

\* C18: no push, pop, extend, + or * on the stack changes the list items()
\* returned, and an append to that list does not change the stack.
C18_Step ==
  view.stk \in StackId
    => /\ last'.op \in {"push", "pop", "extend", "add", "mul"}
            => ViewNow' = ViewNow
       /\ last'.op = "append" => elts' = elts

C18_ItemsSnapshot == [][C18_Step]_vars

\* C19: after an iteration request on a stack of length L, with only pushes
\* and extends between the steps, the cursor stands at L minus the number of
\* elements yielded, so at most L elements are yielded before the end is
\* signalled.
C19_WalkBounded ==
  \A s \in StackId :
    /\ walk[s].state # "none" => walk[s].yields <= walk[s].limit
    /\ walk[s].state = "active"
         => index[s] = walk[s].limit - walk[s].yields
    /\ walk[s].state = "stopped" => walk[s].yields = walk[s].limit

C19_Witness ==
  /\ walk[1].state = "stopped" /\ last.op = "next"
  /\ walk[1].limit >= 2
  /\ Len(elts[1]) > walk[1].limit

====
